---- MODULE Spec2Model ----
(***************************************************************************)
(* Model of Code.py, a Streamlit script that draws random points inside    *)
(* Norway's bounding box and shows them on a pydeck HexagonLayer.          *)
(*                                                                         *)
(* The script is re-executed from its first line for every interaction of  *)
(* the session's user.  One session is modelled statement by statement     *)
(* (pc is the script line about to run).  st.cache_data is one cache per   *)
(* server process, shared by every session that runs the script: the other *)
(* sessions are modelled by what they can do to that cache, which is what  *)
(* lines 64 and 69 do when another session executes them.                  *)
(*                                                                         *)
(* Modelling conventions:                                                  *)
(*  - coordinates are in tenths of a degree (4.0 is 40, 71.5 is 715);      *)
(*  - np.random's stream is a nondeterministically chosen seed followed by *)
(*    a fixed sequence of draws k/Res, k in 0..Res (k = Res is the upper   *)
(*    end, which numpy can return through floating-point rounding);        *)
(*  - a DataFrame is the bag of its rows: the number of rows and every     *)
(*    row's values are kept, the order of the rows is not;                 *)
(*  - an unbound name or an element not on the page is None (<<>>), a      *)
(*    bound one is Some(v) (<<v>>);                                        *)
(*  - an interaction is delivered when the script is not running.          *)
(***************************************************************************)
EXTENDS Bags, FiniteSets, Integers, Sequences, TLC

\* ---------------------------------------------------------------- bounds
\* Seeds of the random stream are 0..MaxSeed.
MaxSeed == 1
\* The random stream draws k/Res for k in 0..Res.
Res == 4

\* ------------------------------------------------------ program constants
NumPointsMin == 100
NumPointsMax == 10000
NumPointsDefault == 5000
NumPointsStep == 100
RadiusMin == 1000
RadiusMax == 50000
RadiusDefault == 10000
RadiusStep == 1000
ElevationMin == 1
ElevationMax == 100
ElevationDefault == 20
ElevationStep == 1
RawSampleRows == 100

\* The dict literal bound to NORWAY_BOUNDS, in tenths of a degree.
NorwayBox == [min_lon |-> 40, max_lon |-> 315, min_lat |-> 575, max_lat |-> 715]

None == <<>>
Some(v) == <<v>>
Get(o) == o[1]

\* ------------------------------------------------------------- the widgets
\* Every value st.slider(min_value, max_value, step) can hand to the script.
SliderValues(min_value, max_value, step) ==
    {min_value + k * step : k \in 0..((max_value - min_value) \div step)}

\* The point-count slider declared with min_value=0.
NumPointsValues_from_zero == SliderValues(0, NumPointsMax, NumPointsStep)

NumPointsValues == SliderValues(NumPointsMin, NumPointsMax, NumPointsStep)
RadiusValues == SliderValues(RadiusMin, RadiusMax, RadiusStep)
ElevationValues == SliderValues(ElevationMin, ElevationMax, ElevationStep)

Lowest(S) == CHOOSE v \in S : \A w \in S : v <= w
Highest(S) == CHOOSE v \in S : \A w \in S : w <= v

\* The positions the modelled user moves each slider to: both ends of the
\* slider and its initial value.
NumPointsChoices == {Lowest(NumPointsValues), NumPointsDefault, Highest(NumPointsValues)}
RadiusChoices == {Lowest(RadiusValues), RadiusDefault, Highest(RadiusValues)}
ElevationChoices == {Lowest(ElevationValues), ElevationDefault, Highest(ElevationValues)}

Seeds == 0..MaxSeed

\* --------------------------------------------------------- data generation
\* The j-th draw of the stream started at seed, as a numerator over Res: a
\* fixed function of the seed and the position, as a pseudo-random generator
\* is, under which different seeds give different samples.
Draw(seed, j) == (j * j + seed * j + seed) % (Res + 1)

\* np.random.uniform(low, high, size): size draws, the first one being draw
\* number offset + 1 of the stream.
uniform(low, high, size, seed, offset) ==
    [i \in 1..size |-> low + ((high - low) * Draw(seed, offset + i)) \div Res]

\* pd.DataFrame({'lat': lat, 'lon': lon}) as the bag of its rows.
DataFrame(lat, lon) ==
    LET n == Len(lat)
        row(i) == [lat |-> lat[i], lon |-> lon[i]]
        rows == {row(i) : i \in 1..n}
    IN  [r \in rows |-> Cardinality({i \in 1..n : row(i) = r})]

\* len(df)
len(df) == BagCardinality(df)

\* generate_data drawing one point too few.
generate_data_short(num_points, bounds, seed) ==
    LET lat == uniform(bounds.min_lat, bounds.max_lat, num_points - 1, seed, 0)
        lon == uniform(bounds.min_lon, bounds.max_lon, num_points - 1, seed, num_points - 1)
    IN  DataFrame(lat, lon)

\* generate_data drawing each column from the other column's bounds.
generate_data_swapped(num_points, bounds, seed) ==
    LET lat == uniform(bounds.min_lon, bounds.max_lon, num_points, seed, 0)
        lon == uniform(bounds.min_lat, bounds.max_lat, num_points, seed, num_points)
    IN  DataFrame(lat, lon)

\* The body of generate_data, reading the script's global NORWAY_BOUNDS
\* (bounds); lat is drawn first, lon next.
generate_data(num_points, bounds, seed) ==
    LET lat == uniform(bounds.min_lat, bounds.max_lat, num_points, seed, 0)
        lon == uniform(bounds.min_lon, bounds.max_lon, num_points, seed, num_points)
    IN  DataFrame(lat, lon)

\* generate_data tabulated over the arguments the script can call it with.
Generated ==
    [bounds \in {NorwayBox}, num_points \in NumPointsChoices, seed \in Seeds |->
        generate_data(num_points, bounds, seed)]

\* A layer built with the radius slider's initial value instead of its value.
Layer_default_radius(df, radius, elevation_scale) ==
    [type |-> "HexagonLayer", data |-> df, get_position |-> <<"lon", "lat">>,
     radius |-> RadiusDefault, elevation_scale |-> elevation_scale]

\* pdk.Layer("HexagonLayer", data=data, get_position=["lon", "lat"],
\* radius=..., elevation_scale=...); the fixed styling arguments are left out.
Layer(df, radius, elevation_scale) ==
    [type |-> "HexagonLayer", data |-> df, get_position |-> <<"lon", "lat">>,
     radius |-> radius, elevation_scale |-> elevation_scale]

\* The positions the layer reads from its data through get_position.
Positions(l) == {<<r[l.get_position[1]], r[l.get_position[2]]>> : r \in DOMAIN l.data}

\* data.head(100): the number of rows of the sample.
head(df, k) == IF len(df) < k THEN len(df) ELSE k

VARIABLES
    widgets,                \* the widgets' values in the browser
    pc,                     \* the statement the script is at
    trigger,                \* what started the current (or last) run
    num_points_slider,      \* script names, bound while a run is under way
    hexagon_radius_slider,
    elevation_scale_slider,
    NORWAY_BOUNDS,
    data,
    cache,                  \* st.cache_data's entries of generate_data
    chart,                  \* the layer of the deck on the page
    stale,                  \* the page's elements are those of an earlier run
    sidebar_text,           \* N of "Generated N data points."
    raw_rows,               \* rows of the raw data sample on the page
    miss,                   \* the last generate_data call ran the body
    mine,                   \* count -> what this session's last call returned,
                            \*   since this session last cleared the cache
    returned                \* the same, since any session last cleared it

vars == <<widgets, pc, trigger, num_points_slider, hexagon_radius_slider,
          elevation_scale_slider, NORWAY_BOUNDS, data, cache, chart, stale,
          sidebar_text, raw_rows, miss, mine, returned>>

locals == <<num_points_slider, hexagon_radius_slider, elevation_scale_slider,
            NORWAY_BOUNDS, data>>
page == <<chart, sidebar_text, raw_rows>>
history == <<miss, mine, returned>>

EmptyCache == <<>>

Init ==
    /\ widgets = [num_points |-> NumPointsDefault, hexagon_radius |-> RadiusDefault,
                  elevation_scale |-> ElevationDefault, show_raw |-> FALSE,
                  regenerate |-> FALSE]
    /\ pc = "sliders"
    /\ trigger = "load"
    /\ num_points_slider = None
    /\ hexagon_radius_slider = None
    /\ elevation_scale_slider = None
    /\ NORWAY_BOUNDS = None
    /\ data = None
    /\ cache = EmptyCache
    /\ chart = None
    /\ stale = TRUE
    /\ sidebar_text = None
    /\ raw_rows = None
    /\ miss = FALSE
    /\ mine = EmptyCache
    /\ returned = EmptyCache

\* ------------------------------------------------------ the user's actions
\* A new run of the script: the names of the previous run are gone and what
\* is on the page is stale until the run replaces it.
StartRun(kind) ==
    /\ pc' = "sliders"
    /\ trigger' = kind
    /\ num_points_slider' = None
    /\ hexagon_radius_slider' = None
    /\ elevation_scale_slider' = None
    /\ NORWAY_BOUNDS' = None
    /\ data' = None
    /\ stale' = TRUE

ChangeNumPoints(v) ==
    /\ pc = "idle"
    /\ v # widgets.num_points
    /\ widgets' = [widgets EXCEPT !.num_points = v]
    /\ StartRun("num_points")
    /\ UNCHANGED <<cache, page, history>>

ChangeRadius(v) ==
    /\ pc = "idle"
    /\ v # widgets.hexagon_radius
    /\ widgets' = [widgets EXCEPT !.hexagon_radius = v]
    /\ StartRun("radius")
    /\ UNCHANGED <<cache, page, history>>

ChangeElevation(v) ==
    /\ pc = "idle"
    /\ v # widgets.elevation_scale
    /\ widgets' = [widgets EXCEPT !.elevation_scale = v]
    /\ StartRun("elevation")
    /\ UNCHANGED <<cache, page, history>>

ToggleRawData ==
    /\ pc = "idle"
    /\ widgets' = [widgets EXCEPT !.show_raw = ~@]
    /\ StartRun("checkbox")
    /\ UNCHANGED <<cache, page, history>>

ClickRegenerate ==
    /\ pc = "idle"
    /\ widgets' = [widgets EXCEPT !.regenerate = TRUE]
    /\ StartRun("button")
    /\ UNCHANGED <<cache, page, history>>

\* ------------------------------------------------------------ the script
\* Lines 25-54: the three sliders are read and NORWAY_BOUNDS is bound.
ReadSliders ==
    /\ pc = "sliders"
    /\ num_points_slider' = Some(widgets.num_points)
    /\ hexagon_radius_slider' = Some(widgets.hexagon_radius)
    /\ elevation_scale_slider' = Some(widgets.elevation_scale)
    /\ NORWAY_BOUNDS' = Some(NorwayBox)
    /\ pc' = "generate"
    /\ UNCHANGED <<widgets, trigger, data, cache, page, stale, history>>

\* generate_data without the decorator's lookup: the body runs again although
\* the cache has an entry.
CacheHit_resample(num_points) ==
    /\ num_points \in DOMAIN cache
    /\ \E seed \in Seeds :
          /\ data' = Some(Generated[Get(NORWAY_BOUNDS), num_points, seed])
          /\ cache' = [cache EXCEPT ![num_points] = Generated[Get(NORWAY_BOUNDS), num_points, seed]]
    /\ miss' = TRUE

\* What the call generate_data(num_points) of line 64 leaves in the names it
\* can touch, when the cache has an entry for num_points.
CacheHit(num_points) ==
    /\ num_points \in DOMAIN cache
    /\ data' = Some(cache[num_points])
    /\ miss' = FALSE
    /\ UNCHANGED cache

\* A miss that stores its result as the cache's only entry.
CacheMiss_wipe(num_points, seed) ==
    /\ num_points \notin DOMAIN cache
    /\ data' = Some(Generated[Get(NORWAY_BOUNDS), num_points, seed])
    /\ cache' = (num_points :> Generated[Get(NORWAY_BOUNDS), num_points, seed])
    /\ miss' = TRUE

\* The same when it has none: the body runs and its result is stored.
CacheMiss(num_points, seed) ==
    /\ num_points \notin DOMAIN cache
    /\ data' = Some(Generated[Get(NORWAY_BOUNDS), num_points, seed])
    /\ cache' = (num_points :> Generated[Get(NORWAY_BOUNDS), num_points, seed]) @@ cache
    /\ miss' = TRUE

\* Lines 64-67: data = generate_data(num_points_slider) and the sidebar text.
GenerateData ==
    /\ pc = "generate"
    /\ \/ CacheHit(Get(num_points_slider))
       \/ \E seed \in Seeds : CacheMiss(Get(num_points_slider), seed)
    /\ sidebar_text' = Some(len(Get(data')))
    /\ mine' = (Get(num_points_slider) :> Get(data')) @@ mine
    /\ returned' = (Get(num_points_slider) :> Get(data')) @@ returned
    /\ pc' = "button"
    /\ UNCHANGED <<widgets, trigger, num_points_slider, hexagon_radius_slider,
                   elevation_scale_slider, NORWAY_BOUNDS, chart, stale, raw_rows>>

\* The button branch without st.cache_data.clear().
RegenerateClicked_noclear ==
    /\ pc = "button"
    /\ widgets.regenerate
    /\ widgets' = [widgets EXCEPT !.regenerate = FALSE]
    /\ pc' = "rerun"
    /\ UNCHANGED <<trigger, locals, cache, page, stale, history>>

\* The button branch without st.rerun(): the run goes on to the map.
RegenerateClicked_norerun ==
    /\ pc = "button"
    /\ widgets.regenerate
    /\ cache' = EmptyCache
    /\ widgets' = [widgets EXCEPT !.regenerate = FALSE]
    /\ pc' = "map"
    /\ mine' = EmptyCache
    /\ returned' = EmptyCache
    /\ UNCHANGED <<trigger, locals, page, stale, miss>>

\* The button branch of a widget that keeps its value (a checkbox, say).
RegenerateClicked_sticky ==
    /\ pc = "button"
    /\ widgets.regenerate
    /\ cache' = EmptyCache
    /\ pc' = "rerun"
    /\ mine' = EmptyCache
    /\ returned' = EmptyCache
    /\ UNCHANGED <<widgets, trigger, locals, page, stale, miss>>

\* Lines 68-70, button pressed: the cache is cleared and the run ends in
\* st.rerun(); the button reads False in the next run.
RegenerateClicked ==
    /\ pc = "button"
    /\ widgets.regenerate
    /\ cache' = EmptyCache
    /\ widgets' = [widgets EXCEPT !.regenerate = FALSE]
    /\ pc' = "rerun"
    /\ mine' = EmptyCache
    /\ returned' = EmptyCache
    /\ UNCHANGED <<trigger, locals, page, stale, miss>>

\* Line 68, button not pressed.
RegenerateNotClicked ==
    /\ pc = "button"
    /\ ~widgets.regenerate
    /\ pc' = "map"
    /\ UNCHANGED <<widgets, trigger, locals, cache, page, stale, history>>

\* The run st.rerun() asked for starts.
Rerun ==
    /\ pc = "rerun"
    /\ StartRun("rerun")
    /\ UNCHANGED <<widgets, cache, page, history>>

\* Lines 75-117: the layer and the deck are built and the deck is displayed;
\* the sidebar elements of this run are now the page's.
DisplayMap ==
    /\ pc = "map"
    /\ chart' = Some(Layer(Get(data), Get(hexagon_radius_slider),
                           Get(elevation_scale_slider)))
    /\ stale' = FALSE
    /\ pc' = "checkbox"
    /\ UNCHANGED <<widgets, trigger, locals, cache, sidebar_text, raw_rows, history>>

\* Lines 120-125, box ticked: the first rows of data are shown; the run ends.
ShowRawData ==
    /\ pc = "checkbox"
    /\ widgets.show_raw
    /\ raw_rows' = Some(head(Get(data), RawSampleRows))
    /\ pc' = "idle"
    /\ UNCHANGED <<widgets, trigger, locals, cache, chart, stale, sidebar_text, history>>

\* Lines 120-125, box not ticked.
HideRawData ==
    /\ pc = "checkbox"
    /\ ~widgets.show_raw
    /\ raw_rows' = None
    /\ pc' = "idle"
    /\ UNCHANGED <<widgets, trigger, locals, cache, chart, stale, sidebar_text, history>>

\* ------------------------------------------------------ the other sessions
\* Another session's call storing its own sample over an existing entry.
OtherSessionGenerates_overwrite(num_points, seed) ==
    /\ cache' = (num_points :> Generated[NorwayBox, num_points, seed]) @@ cache
    /\ UNCHANGED <<widgets, pc, trigger, locals, page, stale, history>>

\* Another session runs line 64 with a count the cache has no entry for.
OtherSessionGenerates(num_points, seed) ==
    /\ num_points \notin DOMAIN cache
    /\ cache' = (num_points :> Generated[NorwayBox, num_points, seed]) @@ cache
    /\ UNCHANGED <<widgets, pc, trigger, locals, page, stale, history>>

\* Another session runs line 69.
OtherSessionRegenerates ==
    /\ cache' = EmptyCache
    /\ returned' = EmptyCache
    /\ UNCHANGED <<widgets, pc, trigger, locals, page, stale, miss, mine>>

\* --------------------------------------------------------- specifications
User ==
    \/ \E v \in NumPointsChoices : ChangeNumPoints(v)
    \/ \E v \in RadiusChoices : ChangeRadius(v)
    \/ \E v \in ElevationChoices : ChangeElevation(v)
    \/ ToggleRawData
    \/ ClickRegenerate

Script ==
    \/ ReadSliders
    \/ GenerateData
    \/ RegenerateClicked
    \/ RegenerateNotClicked
    \/ Rerun
    \/ DisplayMap
    \/ ShowRawData
    \/ HideRawData

Others ==
    \/ \E num_points \in NumPointsChoices, seed \in Seeds :
           OtherSessionGenerates(num_points, seed)
    \/ OtherSessionRegenerates

\* One session on its own.
Next == User \/ Script
Spec == Init /\ [][Next]_vars

\* The interactions that decide what the script asks of the cache: the count,
\* the button, and the checkbox for the widgets the cache is not keyed by
\* (the radius and the elevation slider start the same run as it does).
UserShared ==
    \/ \E v \in NumPointsChoices : ChangeNumPoints(v)
    \/ ToggleRawData
    \/ ClickRegenerate

\* The session with other sessions of the same server.
NextShared == UserShared \/ Script \/ Others
SpecShared == Init /\ [][NextShared]_vars

\* One session on its own, whose script always runs on.
SpecFair == Spec /\ WF_vars(Script)

\* ------------------------------------------------------------ properties
\* The step in which the script's call generate_data(num_points_slider)
\* returns.
GenerateStep == pc = "generate" /\ pc' = "button"

\* The rows of every collection the state holds: the cache's entries, the
\* script's data and the data of the layer on the page.
HeldFrames ==
    {cache[n] : n \in DOMAIN cache}
        \cup {Get(o) : o \in {data} \ {None}}
        \cup {Get(o).data : o \in {chart} \ {None}}

\* C1: generate_data(N) returns exactly N coordinate pairs, freshly sampled
\* or served from the cache: every cache entry has as many rows as its key,
\* the script's data and the sidebar text have as many as the slider's value,
\* and the layer displayed by a run has as many as the slider's value.
C1_ExactlyNRows ==
    /\ \A n \in DOMAIN cache : len(cache[n]) = n
    /\ data # None =>
          /\ len(Get(data)) = Get(num_points_slider)
          /\ sidebar_text = Some(Get(num_points_slider))
    /\ (chart # None /\ ~stale) => len(Get(chart).data) = widgets.num_points

\* C1 witness: a run has displayed a layer of 10000 rows that came from the
\* cache, not from a fresh sample.
C1_Witness ==
    /\ pc = "checkbox"
    /\ ~miss
    /\ widgets.num_points = 10000
    /\ len(Get(chart).data) = 10000
    /\ ~stale

\* C2: every point in the cache, in the script's data or in the displayed
\* layer has longitude in [4.0, 31.5] and latitude in [57.5, 71.5], and the
\* positions the layer extracts are (longitude, latitude) in that order.
C2_WithinBounds ==
    /\ \A df \in HeldFrames : \A r \in DOMAIN df :
          /\ 40 <= r.lon /\ r.lon <= 315
          /\ 575 <= r.lat /\ r.lat <= 715
    /\ chart # None => \A q \in Positions(Get(chart)) :
          /\ 40 <= q[1] /\ q[1] <= 315
          /\ 575 <= q[2] /\ q[2] <= 715

\* C2 witness: the displayed layer holds a point on the lower and a point on
\* the upper end of both ranges, and another session's sample is cached.
C2_Witness ==
    /\ ~stale
    /\ <<40, 575>> \in Positions(Get(chart))
    /\ <<315, 715>> \in Positions(Get(chart))
    /\ \E n \in DOMAIN cache : n # widgets.num_points /\ n \notin DOMAIN mine

\* C3: a call generate_data(N) made when an earlier call for N has returned
\* and Regenerate has not run since returns the collection the earlier call
\* returned, without sampling.
C3_Memoized ==
    [][GenerateStep /\ Get(num_points_slider) \in DOMAIN mine =>
          /\ data' = Some(mine[Get(num_points_slider)])
          /\ ~miss']_vars

\* C3 witness: the count was set back to its initial value after another
\* count was requested and the radius and the elevation scale were changed,
\* and the call was served from the cache.
C3_Witness ==
    /\ pc = "button"
    /\ trigger = "num_points"
    /\ ~miss
    /\ Get(num_points_slider) = 5000
    /\ Cardinality(DOMAIN mine) >= 2
    /\ Get(hexagon_radius_slider) # 10000
    /\ Get(elevation_scale_slider) # 20
    /\ len(Get(chart).data) # 5000

\* C4: when the run of a click on Regenerate Data ends, the cache has no
\* entry and the page still shows the elements of an earlier run; the call
\* of the run that follows samples afresh, and what that run displays is
\* the collection its own call sampled.
C4_RegenerateResamples ==
    /\ pc = "rerun" => cache = EmptyCache /\ stale
    /\ (trigger = "rerun" /\ pc \in {"button", "map", "checkbox", "idle"}) =>
          /\ miss
          /\ cache[widgets.num_points] = mine[widgets.num_points]
    /\ (trigger = "rerun" /\ ~stale) =>
          Get(chart).data = mine[widgets.num_points]
    /\ trigger = "button" => stale

\* C4 witness: the rerun of a click has sampled a collection for the same
\* count that differs from the one on the page before the click.
C4_Witness ==
    /\ trigger = "rerun"
    /\ pc = "map"
    /\ miss
    /\ len(Get(chart).data) = Get(num_points_slider)
    /\ Get(data) # Get(chart).data

\* C5: the argument of generate_data is the point-count slider's value, a
\* multiple of 100 in [100, 10000] that is 5000 on the first run; no cache
\* entry is keyed by a count outside that range; the radius is in
\* [1000, 50000] and the elevation scale in [1, 100].
C5_InputsClamped ==
    /\ widgets.num_points \in 100..10000 /\ widgets.num_points % 100 = 0
    /\ trigger = "load" => widgets.num_points = 5000
    /\ num_points_slider # None => Get(num_points_slider) = widgets.num_points
    /\ \A n \in DOMAIN cache \cup DOMAIN mine : n \in 100..10000
    /\ hexagon_radius_slider # None => Get(hexagon_radius_slider) \in 1000..50000
    /\ elevation_scale_slider # None => Get(elevation_scale_slider) \in 1..100
    /\ chart # None =>
          /\ Get(chart).radius \in 1000..50000
          /\ Get(chart).elevation_scale \in 1..100

\* C5 witness: generate_data has been called with both ends of the range and
\* the layer on the page has the largest radius and the smallest elevation
\* scale.
C5_Witness ==
    /\ {100, 10000} \subseteq DOMAIN mine
    /\ chart # None
    /\ Get(chart).radius = 50000
    /\ Get(chart).elevation_scale = 1

\* C6 as stated: a run that has ended, the run of a click on Regenerate Data
\* included, has displayed the map and handled the raw-data checkbox.
C6_EveryRunReachesTheMap ==
    pc \in {"idle", "rerun"} => ~stale /\ ((raw_rows # None) <=> widgets.show_raw)

\* C6 amended: every interaction starts a run at the script's first widget;
\* a run that was not started by a click on Regenerate Data goes on to
\* display the map and to handle the checkbox; the run of a click ends at
\* st.rerun() without displaying the map, and the run that st.rerun() starts
\* displays it.
C6_RunsReachTheMapExceptTheClick ==
    /\ [][pc = "idle" /\ pc' # "idle" => pc' = "sliders"]_vars
    /\ [](pc = "idle" => ~stale /\ ((raw_rows # None) <=> widgets.show_raw))
    /\ [](pc = "rerun" => trigger = "button" /\ stale)
    /\ [](trigger = "button" => pc \in {"sliders", "generate", "button", "rerun"})
    /\ ((pc = "sliders" /\ trigger # "button") ~> (pc = "idle" /\ ~stale))
    /\ ((pc = "sliders" /\ trigger = "button") ~> (pc = "idle" /\ trigger = "rerun"))

\* C6 witness: the run of a click has ended at st.rerun() with the map of an
\* earlier run on the page.
C6_Witness == pc = "rerun" /\ trigger = "button" /\ stale /\ chart # None

\* C7 as stated: a call generate_data(N) of a session that has not run
\* Regenerate since its last call for N returns what that call returned,
\* whatever other sessions did to the cache.
C7_SessionsIsolated ==
    [][GenerateStep /\ Get(num_points_slider) \in DOMAIN mine =>
          data' = Some(mine[Get(num_points_slider)])]_vars

\* C7 amended: the cache is shared; what a session's call for N returned is
\* what the cache holds for N until some session, this one or another, runs
\* Regenerate, and a call of another session adds an entry without changing
\* the entries there are.
C7_SharedUntilAnyRegenerate ==
    /\ [](\A n \in DOMAIN returned : n \in DOMAIN cache /\ cache[n] = returned[n])
    /\ [][GenerateStep /\ Get(num_points_slider) \in DOMAIN returned =>
            data' = Some(returned[Get(num_points_slider)])]_vars
    /\ [][\A n \in DOMAIN cache \cap DOMAIN cache' : cache'[n] = cache[n]]_vars

\* C7 witness: the run of a click on the checkbox had to sample again, and
\* got other points than the page showed, because another session had
\* cleared the cache.
C7_Witness ==
    /\ trigger = "checkbox"
    /\ pc = "button"
    /\ miss
    /\ len(Get(chart).data) = Get(num_points_slider)
    /\ Get(data) # Get(chart).data

\* C8: the call of generate_data changes nothing but data and the cache's
\* entry for its argument, and NORWAY_BOUNDS, once bound, is always
\* (4.0, 31.5, 57.5, 71.5).
C8_NoOtherEffects ==
    /\ [](NORWAY_BOUNDS # None =>
            Get(NORWAY_BOUNDS) =
                [min_lon |-> 40, max_lon |-> 315, min_lat |-> 575, max_lat |-> 715])
    /\ [][GenerateStep =>
            /\ UNCHANGED <<NORWAY_BOUNDS, widgets, num_points_slider,
                           hexagon_radius_slider, elevation_scale_slider,
                           chart, raw_rows>>
            /\ DOMAIN cache' = DOMAIN cache \cup {Get(num_points_slider)}
            /\ \A n \in DOMAIN cache : cache'[n] = cache[n]]_vars

\* C8 witness: a call has sampled a collection while the cache held the
\* entries of two other counts.
C8_Witness ==
    /\ pc = "button"
    /\ miss
    /\ Cardinality(DOMAIN cache) = 3
    /\ NORWAY_BOUNDS = Some(NorwayBox)

\* C9: a run started by the radius slider, the elevation slider or the
\* checkbox leaves the cache as it is, and the layer it displays has the
\* collection that was displayed before, which is the cache's entry for the
\* count, with the radius and the elevation scale of that run.
C9_KeyedByCountOnly ==
    /\ [][trigger' \in {"radius", "elevation", "checkbox"} => cache' = cache]_vars
    /\ [][(trigger \in {"radius", "elevation", "checkbox"} /\ pc = "map") =>
            /\ Get(chart').data = Get(chart).data
            /\ Get(chart').data = cache[widgets.num_points]
            /\ Get(chart').radius = widgets.hexagon_radius
            /\ Get(chart').elevation_scale = widgets.elevation_scale]_vars
    /\ []((trigger \in {"radius", "elevation", "checkbox"} /\ pc # "sliders"
              /\ pc # "generate") => ~miss)

\* C9 witness: the run of a radius change has displayed the cached collection
\* with the new radius.
C9_Witness ==
    /\ trigger = "radius"
    /\ pc = "checkbox"
    /\ ~miss
    /\ Get(chart).radius = 50000
    /\ Get(chart).data = cache[widgets.num_points]

\* C10: the run of a click ends with the cache cleared and a rerun asked for;
\* in the rerun the button reads not pressed, so it neither clears nor reruns
\* and it ends with the map displayed and the cache holding one entry, for
\* the current count.
C10_OneRerunThenIdle ==
    /\ [](pc = "rerun" => trigger = "button" /\ cache = EmptyCache /\ ~widgets.regenerate)
    /\ [](trigger = "rerun" => ~widgets.regenerate /\ pc # "rerun")
    /\ []((trigger = "rerun" /\ pc = "idle") =>
             ~stale /\ DOMAIN cache = {widgets.num_points})
    /\ [][trigger = "rerun" /\ pc # "idle" =>
            trigger' = "rerun" /\ DOMAIN cache \subseteq DOMAIN cache']_vars
    /\ (pc = "rerun" ~> (pc = "idle" /\ trigger = "rerun"))

\* C10 witness: the rerun of a click has ended with one cache entry.
C10_Witness ==
    /\ trigger = "rerun"
    /\ pc = "idle"
    /\ ~stale
    /\ Cardinality(DOMAIN cache) = 1

====
